---- MODULE Spec2Model ----
(***************************************************************************)
(* Model of run_voice_input.py: the launcher's main(), the batch check     *)
(* runners, the streaming launchers, the asset download and the tkinter    *)
(* dashboard with its worker threads.                                      *)
(*                                                                         *)
(* A call of subprocess.run is two steps: the spawn (which either creates  *)
(* a child process or raises OSError) and the end of the wait (the child   *)
(* exits, the timeout expires and the child is killed, or the wait is      *)
(* interrupted).  A thread is taken to run without interleaving from one   *)
(* wait to the next.                                                       *)
(***************************************************************************)
EXTENDS Integers, Sequences, FiniteSets, Bags, TLC

\* ---- bounds of the model ------------------------------------------------
MaxWorkers == 2          \* worker threads the dashboard user may start

\* ---- program constants --------------------------------------------------
PROJECT_ROOT == "PROJECT_ROOT"
SRC_TAURI == "SRC_TAURI"
DashboardTimeout == 300

Flags == {"frontend", "test", "test_rust", "dashboard", "skip_checks"}
RequiredTools == {"rustc", "cargo", "bun"}
Tools == RequiredTools \cup {"node"}
\* The exit codes of a child: the program only tests returncode == 0, so 1
\* stands for every nonzero code.
ExitCodes == {0, 1}

CARGO_TEST == <<"cargo", "test", "--lib">>
BUN_LINT == <<"bun", "run", "lint">>
BUN_TSC == <<"bun", "x", "tsc", "--noEmit">>
BUN_FORMAT == <<"bun", "run", "format:check">>
BUN_DEV == <<"bun", "run", "dev">>
BUN_TAURI_DEV == <<"bun", "run", "tauri", "dev">>
BUN_INSTALL == <<"bun", "install">>
CURL == <<"curl", "-L", "-o", "VAD_MODEL_PATH", "VAD_MODEL_URL">>

Range(s) == {s[i] : i \in 1..Len(s)}

\* The batch runners: each is a fixed command, a fixed cwd and no timeout.
run_rust_tests == [name |-> "Rust Tests", cmd |-> CARGO_TEST, cwd |-> SRC_TAURI]
run_frontend_lint == [name |-> "Frontend Lint", cmd |-> BUN_LINT, cwd |-> PROJECT_ROOT]
run_type_check == [name |-> "Type Check", cmd |-> BUN_TSC, cwd |-> PROJECT_ROOT]
run_format_check == [name |-> "Format Check", cmd |-> BUN_FORMAT, cwd |-> PROJECT_ROOT]

run_all_tests_swapped ==
    <<run_frontend_lint, run_rust_tests, run_type_check, run_format_check>>

\* run_all_tests calls the four runners in this order.
run_all_tests_order == <<run_rust_tests, run_frontend_lint, run_type_check, run_format_check>>

\* The dashboard's first row of buttons.
buttons == << [label |-> "Run Rust Tests", cmd |-> CARGO_TEST],
              [label |-> "Lint Frontend", cmd |-> BUN_LINT],
              [label |-> "Type Check", cmd |-> BUN_TSC],
              [label |-> "Format Check", cmd |-> BUN_FORMAT] >>

\* The list run_all_thread iterates over.
checks == << [label |-> "Rust Tests", cmd |-> CARGO_TEST],
             [label |-> "Frontend Lint", cmd |-> BUN_LINT],
             [label |-> "Type Check", cmd |-> BUN_TSC] >>

wrapper_cwd_swapped(func) == IF "cargo" \notin Range(func) THEN SRC_TAURI ELSE PROJECT_ROOT

\* cwd=str(PROJECT_ROOT if "cargo" not in func else SRC_TAURI): list membership.
wrapper_cwd(func) == IF "cargo" \notin Range(func) THEN PROJECT_ROOT ELSE SRC_TAURI

\* cwd=str(SRC_TAURI if "cargo" in cmd else PROJECT_ROOT)
run_all_cwd(cmd) == IF "cargo" \in Range(cmd) THEN SRC_TAURI ELSE PROJECT_ROOT

\* all_passed = True; for name, passed in results.items(): if not passed: all_passed = False
RECURSIVE all_passed_loop(_, _)
all_passed_loop(res, acc) ==
    IF res = <<>> THEN acc
    ELSE all_passed_loop(Tail(res), IF Head(res).passed THEN acc ELSE FALSE)

batch_all_passed_last(res) == IF res = <<>> THEN TRUE ELSE res[Len(res)].passed

batch_all_passed(res) == all_passed_loop(res, TRUE)

\* all(results.values())
dash_all_passed(res) == \A i \in 1..Len(res) : res[i].passed

\* results[label] = value: a dict keeps the insertion order of its keys.
DictSet(res, key, value) ==
    IF \E i \in 1..Len(res) : res[i].name = key
    THEN [i \in 1..Len(res) |->
            IF res[i].name = key THEN [name |-> key, passed |-> value] ELSE res[i]]
    ELSE Append(res, [name |-> key, passed |-> value])

VARIABLES
    args,        \* the flags given on the command line
    pc,          \* where the main thread is
    mode,        \* the branch main took: "none" before the dispatch
    found,       \* the tools check_prerequisites found
    vadFile,     \* VAD_MODEL_PATH: "absent", "partial" or "complete"
    vadResult,   \* what download_vad_model returned: "none", "true", "false"
    transports,  \* the transports download_vad_model has attempted, in order
    procs,       \* the child processes the main thread created, in creation order
    todo,        \* batch: the runners still to call
    results,     \* batch: the results dict of run_all_tests (or main's success)
    summary,     \* batch: the printed aggregate: "none", "passed", "issues"
    exitCode,    \* the exit code of the process, -1 while it runs
    workers,     \* dashboard: the bag of the worker threads started
    output,      \* dashboard: the lines the output widget shows
    status       \* dashboard: status_var

vars == <<args, pc, mode, found, vadFile, vadResult, transports, procs, todo,
          results, summary, exitCode, workers, output, status>>

mainVars == <<args, pc, mode, found, vadFile, vadResult, transports, procs, todo,
              results, summary, exitCode>>
dashVars == <<workers, output, status>>

\* ---- child processes ----------------------------------------------------
\* subprocess.run(cmd, cwd=cwd, timeout=timeout) has created the child.
Proc(cmd, cwd, timeout, entry) ==
    [cmd |-> cmd, cwd |-> cwd, timeout |-> timeout, entry |-> entry,
     state |-> "alive", rc |-> -1]

\* The main thread's call of subprocess.run has created child p.
Spawn(p) == Append(procs, p)

\* The child the main thread waits for: the one of its latest subprocess.run.
Child == procs[Len(procs)]

\* The child of the main thread exits by itself with code rc.
ChildExit(rc) == [procs EXCEPT ![Len(procs)].state = "exited", ![Len(procs)].rc = rc]

\* subprocess.run kills the child of the main thread: its wait was interrupted.
ChildKill == [procs EXCEPT ![Len(procs)].state = "killed"]

Init ==
    /\ args \in SUBSET Flags
    /\ pc = "start"
    /\ mode = "none"
    /\ found = {}
    /\ vadFile \in {"absent", "partial", "complete"}
    /\ vadResult = "none"
    /\ transports = <<>>
    /\ procs = <<>>
    /\ todo = <<>>
    /\ results = <<>>
    /\ summary = "none"
    /\ exitCode = -1
    /\ workers = EmptyBag
    /\ output = {}
    /\ status = [text |-> "Ready", label |-> ""]

\* ---- main ---------------------------------------------------------------
\* An exception no handler catches: traceback, exit code 1.
Uncaught ==
    /\ pc' = "crashed"
    /\ exitCode' = 1

check_prerequisites_warn_only ==
    /\ pc = "start"
    /\ "skip_checks" \notin args
    /\ \E f \in SUBSET Tools : found' = f
    /\ pc' = "dispatch"
    /\ UNCHANGED <<args, mode, vadFile, vadResult, transports, procs, todo, results,
                   summary, exitCode>>
    /\ UNCHANGED dashVars

\* if not args.skip_checks: if not check_prerequisites(): sys.exit(1)
check_prerequisites ==
    /\ pc = "start"
    /\ "skip_checks" \notin args
    /\ \E f \in SUBSET Tools :
        /\ found' = f
        /\ IF RequiredTools \subseteq f
           THEN pc' = "dispatch" /\ exitCode' = exitCode
           ELSE pc' = "exited" /\ exitCode' = 1
    /\ UNCHANGED <<args, mode, vadFile, vadResult, transports, procs, todo, results,
                   summary>>
    /\ UNCHANGED dashVars

skip_checks ==
    /\ pc = "start"
    /\ "skip_checks" \in args
    /\ pc' = "dispatch"
    /\ UNCHANGED <<args, mode, found, vadFile, vadResult, transports, procs, todo,
                   results, summary, exitCode>>
    /\ UNCHANGED dashVars

\* The chain of ifs of main: the first flag that is set decides.
ModeOf(a) ==
    IF "test_rust" \in a THEN "test_rust"
    ELSE IF "test" \in a THEN "test"
    ELSE IF "dashboard" \in a THEN "dashboard"
    ELSE IF "frontend" \in a THEN "frontend"
    ELSE "default"

main_dispatch ==
    /\ pc = "dispatch"
    /\ mode' = ModeOf(args)
    /\ IF mode' = "test_rust" THEN pc' = "check_spawn" /\ todo' = <<run_rust_tests>>
       ELSE IF mode' = "test" THEN pc' = "check_spawn" /\ todo' = run_all_tests_order
       ELSE pc' = "install_spawn" /\ todo' = todo
    /\ UNCHANGED <<args, found, vadFile, vadResult, transports, procs, results,
                   summary, exitCode>>
    /\ UNCHANGED dashVars

\* ---- batch mode: run_rust_tests, run_frontend_lint, run_type_check, -----
\* ---- run_format_check, run_all_tests --------------------------------------
\* The runner at the head of todo calls subprocess.run: the child is created,
\* or the call raises OSError, which no runner and no caller catches.
run_check_spawn ==
    /\ pc = "check_spawn"
    /\ todo # <<>>
    /\ \/ /\ procs' = Spawn(Proc(Head(todo).cmd, Head(todo).cwd, {}, "batch"))
          /\ pc' = "check_wait"
          /\ exitCode' = exitCode
       \/ /\ Uncaught
          /\ procs' = procs
    /\ UNCHANGED <<args, mode, found, vadFile, vadResult, transports, todo, results,
                   summary>>
    /\ UNCHANGED dashVars

\* The child exits; the runner returns result.returncode == 0, which
\* run_all_tests stores under the runner's name (main keeps it in success).
run_check_return ==
    /\ pc = "check_wait"
    /\ \E rc \in ExitCodes :
        /\ procs' = ChildExit(rc)
        /\ results' = DictSet(results, Head(todo).name, rc = 0)
    /\ todo' = Tail(todo)
    /\ pc' = IF todo' # <<>> THEN "check_spawn" ELSE "check_done"
    /\ UNCHANGED <<args, mode, found, vadFile, vadResult, transports, summary, exitCode>>
    /\ UNCHANGED dashVars

\* The summary loop of run_all_tests and its return value.
run_all_tests_summary ==
    /\ pc = "check_done"
    /\ mode = "test"
    /\ summary' = IF batch_all_passed(results) THEN "passed" ELSE "issues"
    /\ pc' = "sys_exit"
    /\ UNCHANGED <<args, mode, found, vadFile, vadResult, transports, procs, todo,
                   results, exitCode>>
    /\ UNCHANGED dashVars

ExitStatus_zero(success) == 0

\* sys.exit(0 if success else 1)
ExitStatus(success) == IF success THEN 0 ELSE 1

main_sys_exit_fallthrough ==
    /\ \/ pc = "sys_exit" /\ mode = "test"
       \/ pc = "check_done" /\ mode = "test_rust"
    /\ pc' = "install_spawn"
    /\ UNCHANGED <<args, mode, found, vadFile, vadResult, transports, procs, todo,
                   results, summary, exitCode>>
    /\ UNCHANGED dashVars

main_sys_exit ==
    /\ \/ pc = "sys_exit" /\ mode = "test"
       \/ pc = "check_done" /\ mode = "test_rust"
    /\ exitCode' = ExitStatus(IF mode = "test" THEN summary = "passed"
                              ELSE results[1].passed)
    /\ pc' = "exited"
    /\ UNCHANGED <<args, mode, found, vadFile, vadResult, transports, procs, todo,
                   results, summary>>
    /\ UNCHANGED dashVars

\* ---- install_dependencies ----------------------------------------------
install_dependencies_spawn ==
    /\ pc = "install_spawn"
    /\ \/ /\ procs' = Spawn(Proc(BUN_INSTALL, PROJECT_ROOT, {}, "install"))
          /\ pc' = "install_wait"
          /\ exitCode' = exitCode
       \/ /\ Uncaught
          /\ procs' = procs
    /\ UNCHANGED <<args, mode, found, vadFile, vadResult, transports, todo, results,
                   summary>>
    /\ UNCHANGED dashVars

\* main ignores what install_dependencies returns.
install_dependencies_return ==
    /\ pc = "install_wait"
    /\ \E rc \in ExitCodes : procs' = ChildExit(rc)
    /\ pc' = IF mode = "frontend" THEN "launch_spawn" ELSE "download"
    /\ UNCHANGED <<args, mode, found, vadFile, vadResult, transports, todo, results,
                   summary, exitCode>>
    /\ UNCHANGED dashVars

\* ---- download_vad_model ------------------------------------------------
\* main ignores what download_vad_model returns and goes on.
AfterDownload == IF mode = "dashboard" THEN "launch_dashboard" ELSE "launch_spawn"

\* if VAD_MODEL_PATH.exists(): return True
download_vad_model_exists ==
    /\ pc = "download"
    /\ IF vadFile # "absent"
       THEN vadResult' = "true" /\ pc' = AfterDownload
       ELSE vadResult' = vadResult /\ pc' = "dl_curl"
    /\ UNCHANGED <<args, mode, found, vadFile, transports, procs, todo, results,
                   summary, exitCode>>
    /\ UNCHANGED dashVars

\* curl_path = shutil.which("curl"); if curl_path: subprocess.run(["curl", ...])
download_vad_model_curl ==
    /\ pc = "dl_curl"
    /\ \/ \* curl is not on the PATH
          /\ pc' = "dl_urllib"
          /\ UNCHANGED <<procs, transports, vadResult>>
       \/ \* curl is spawned
          /\ procs' = Spawn(Proc(CURL, "inherited", {}, "download"))
          /\ transports' = Append(transports, "curl")
          /\ pc' = "dl_curl_wait"
          /\ vadResult' = vadResult
       \/ \* the spawn raises: except Exception: return False
          /\ transports' = Append(transports, "curl")
          /\ vadResult' = "false"
          /\ pc' = AfterDownload
          /\ procs' = procs
    /\ UNCHANGED <<args, mode, found, vadFile, todo, results, summary, exitCode>>
    /\ UNCHANGED dashVars

\* if result.returncode == 0: return True; otherwise fall through to urllib.
download_vad_model_curl_return ==
    /\ pc = "dl_curl_wait"
    /\ \E rc \in ExitCodes :
        /\ procs' = ChildExit(rc)
        /\ IF rc = 0
           THEN vadFile' = "complete" /\ vadResult' = "true" /\ pc' = AfterDownload
           ELSE vadFile' \in {"absent", "partial"} /\ vadResult' = vadResult
                /\ pc' = "dl_urllib"
    /\ UNCHANGED <<args, mode, found, transports, todo, results, summary, exitCode>>
    /\ UNCHANGED dashVars

\* urllib.request.urlretrieve(...): returns, or raises with the file as the
\* failed transfer left it.
download_vad_model_urllib ==
    /\ pc = "dl_urllib"
    /\ transports' = Append(transports, "urllib")
    /\ \/ vadFile' = "complete" /\ vadResult' = "true"
       \/ vadFile' \in {vadFile, "partial"} /\ vadResult' = "false"
    /\ pc' = AfterDownload
    /\ UNCHANGED <<args, mode, found, procs, todo, results, summary, exitCode>>
    /\ UNCHANGED dashVars

\* ---- launch_frontend_only, launch_tauri_dev ------------------------------
LaunchCmd == IF mode = "frontend" THEN BUN_DEV ELSE BUN_TAURI_DEV

\* subprocess.run(cmd, cwd=str(PROJECT_ROOT)) inside try/except KeyboardInterrupt:
\* streaming, no timeout.  An OSError of the spawn is not caught.
launch_spawn ==
    /\ pc = "launch_spawn"
    /\ \/ /\ procs' = Spawn(Proc(LaunchCmd, PROJECT_ROOT, {}, "cli"))
          /\ pc' = "launch_wait"
          /\ exitCode' = exitCode
       \/ /\ Uncaught
          /\ procs' = procs
    /\ UNCHANGED <<args, mode, found, vadFile, vadResult, transports, todo, results,
                   summary>>
    /\ UNCHANGED dashVars

\* The child exits by itself: the launcher returns, main returns.
launch_return ==
    /\ pc = "launch_wait"
    /\ \E rc \in ExitCodes : procs' = ChildExit(rc)
    /\ pc' = "exited"
    /\ exitCode' = 0
    /\ UNCHANGED <<args, mode, found, vadFile, vadResult, transports, todo, results,
                   summary>>
    /\ UNCHANGED dashVars

\* Ctrl+C during the wait: subprocess.run kills the child, waits for its end
\* and re-raises KeyboardInterrupt.
launch_interrupt ==
    /\ pc = "launch_wait"
    /\ procs' = ChildKill
    /\ pc' = "launch_interrupted"
    /\ UNCHANGED <<args, mode, found, vadFile, vadResult, transports, todo, results,
                   summary, exitCode>>
    /\ UNCHANGED dashVars

launch_stopped_blocked ==
    /\ pc = "launch_interrupted"
    /\ UNCHANGED vars

\* except KeyboardInterrupt: info("... stopped"); the launcher returns, main
\* returns.
launch_stopped ==
    /\ pc = "launch_interrupted"
    /\ pc' = "exited"
    /\ exitCode' = 0
    /\ UNCHANGED <<args, mode, found, vadFile, vadResult, transports, procs, todo,
                   results, summary>>
    /\ UNCHANGED dashVars

\* ---- launch_dashboard ---------------------------------------------------
\* import tkinter fails: err(...) and return; otherwise the window is built
\* and root.mainloop() runs until the window is closed.
launch_dashboard ==
    /\ pc = "launch_dashboard"
    /\ \/ pc' = "mainloop" /\ exitCode' = exitCode
       \/ pc' = "exited" /\ exitCode' = 0
    /\ UNCHANGED <<args, mode, found, vadFile, vadResult, transports, procs, todo,
                   results, summary>>
    /\ UNCHANGED dashVars

\* The user closes the window: mainloop returns, main returns, the daemon
\* threads end with the process.
close_window ==
    /\ pc = "mainloop"
    /\ pc' = "exited"
    /\ exitCode' = 0
    /\ UNCHANGED <<args, mode, found, vadFile, vadResult, transports, procs, todo,
                   results, summary>>
    /\ UNCHANGED dashVars

\* A value of status_var: the text around the label, and the label.
Status(text, label) == [text |-> text, label |-> label]

\* write_output(text, tag): output.insert(tk.END, ...).  The widget is kept as
\* the set of the functions whose lines it shows: the text of a line, the
\* number of the lines and their order are not modelled.
write_output(out, by) == out \cup {by}

\* clear_output(): output.delete(1.0, tk.END)
clear_output == {}

\* threading.Thread(target=wrapper, daemon=True): the thread of run_in_thread.
\* child is the child process of the thread's subprocess.run, once created.
Wrapper(func, label) ==
    [target |-> "wrapper", label |-> label, cmd |-> func, pc |-> "begin", i |-> 0,
     results |-> <<>>, child |-> <<>>]

\* threading.Thread(target=run_all_thread, daemon=True): the thread of
\* run_all_btn.  child is the child process of the latest subprocess.run.
RunAllThread ==
    [target |-> "run_all_thread", label |-> "", cmd |-> <<>>, pc |-> "loop", i |-> 1,
     results |-> <<>>, child |-> <<>>]

\* The places where a worker thread ends.
Ended == {"passed", "failed", "timed_out", "error"}

\* Thread(...).start(): one more worker thread.
StartThread(wk) == workers' = workers (+) SetToBag({wk})

\* Worker wk takes a step and is wk2 after it.
Step(wk, wk2) == workers' = (workers (-) SetToBag({wk})) (+) SetToBag({wk2})

run_in_thread_inline(func, label) ==
    StartThread([Wrapper(func, label) EXCEPT
                    !.pc = "wait",
                    !.child = <<Proc(func, wrapper_cwd(func), {DashboardTimeout},
                                     "button")>>])

\* run_in_thread(func, label): starts the worker and returns at once.
run_in_thread(func, label) == StartThread(Wrapper(func, label))

\* The window is open and fewer than MaxWorkers worker threads were started.
CanStart == pc = "mainloop" /\ BagCardinality(workers) < MaxWorkers

\* A button of the first row: command=lambda c=cmd, l=label: run_in_thread(c, l)
check_btn(b) ==
    /\ CanStart
    /\ run_in_thread(buttons[b].cmd, buttons[b].label)
    /\ UNCHANGED <<output, status>>
    /\ UNCHANGED mainVars

launch_frontend_btn ==
    /\ CanStart
    /\ status' = Status("Starting frontend dev server...", "")
    /\ output' = write_output(clear_output, "launch_frontend_btn")
    /\ run_in_thread(BUN_DEV, "Vite Dev Server")
    /\ UNCHANGED mainVars

launch_tauri_btn ==
    /\ CanStart
    /\ status' = Status("Building & launching Tauri app...", "")
    /\ output' = write_output(clear_output, "launch_tauri_btn")
    /\ run_in_thread(BUN_TAURI_DEV, "Tauri Dev")
    /\ UNCHANGED mainVars

run_all_btn ==
    /\ CanStart
    /\ status' = Status("Running all checks...", "")
    /\ output' = clear_output
    /\ StartThread(RunAllThread)
    /\ UNCHANGED mainVars

\* The Clear Output button: command=clear_output
clear_output_btn ==
    /\ pc = "mainloop"
    /\ output # {}
    /\ output' = clear_output
    /\ UNCHANGED <<workers, status>>
    /\ UNCHANGED mainVars

\* ---- the worker of run_in_thread ------------------------------------------
\* wk is a worker thread of a process that still runs.
Running(wk) == pc = "mainloop" /\ wk \in BagToSet(workers)

\* The child of wk exits by itself with code rc.
Exited(wk, rc) == <<[wk.child[1] EXCEPT !.state = "exited", !.rc = rc]>>

\* subprocess.run kills the child of wk when the wait times out.
Killed(wk) == <<[wk.child[1] EXCEPT !.state = "killed"]>>

\* The worker runs up to its wait for the child: status_var.set("Running: ..."),
\* clear_output(), the three header lines, then subprocess.run(func, cwd=...,
\* capture_output=True, text=True, timeout=300) creates the child, or the
\* spawn raises and except Exception reports it.
wrapper_start(wk) ==
    /\ Running(wk)
    /\ wk.target = "wrapper"
    /\ wk.pc = "begin"
    /\ LET header == write_output(clear_output, "wrapper") IN
       \/ /\ Step(wk, [wk EXCEPT !.pc = "wait",
                                 !.child = <<Proc(wk.cmd, wrapper_cwd(wk.cmd),
                                                  {DashboardTimeout}, "button")>>])
          /\ output' = header
          /\ status' = Status("Running", wk.label)
       \/ /\ output' = write_output(header, "wrapper")
          /\ status' = Status("Error running", wk.label)
          /\ Step(wk, [wk EXCEPT !.pc = "error"])
    /\ UNCHANGED mainVars

\* The child exits within the timeout: its captured output is written, then
\* PASSED on code 0 and FAILED otherwise.
wrapper_return(wk) ==
    /\ Running(wk)
    /\ wk.target = "wrapper"
    /\ wk.pc = "wait"
    /\ \E rc \in ExitCodes :
        /\ output' = write_output(output, "wrapper")
        /\ status' = Status(IF rc = 0 THEN "passed" ELSE "failed", wk.label)
        /\ Step(wk, [wk EXCEPT !.pc = IF rc = 0 THEN "passed" ELSE "failed",
                               !.child = Exited(wk, rc)])
    /\ UNCHANGED mainVars

\* subprocess.TimeoutExpired: subprocess.run has killed the child.
wrapper_timeout(wk) ==
    /\ Running(wk)
    /\ wk.target = "wrapper"
    /\ wk.pc = "wait"
    /\ output' = write_output(output, "wrapper")
    /\ status' = Status("timed out", wk.label)
    /\ Step(wk, [wk EXCEPT !.pc = "timed_out", !.child = Killed(wk)])
    /\ UNCHANGED mainVars

\* ---- run_all_thread -------------------------------------------------------
\* The end of one iteration of for label, cmd in checks: results[label] = value
NextCheck(wk, value) ==
    [wk EXCEPT !.results = DictSet(wk.results, checks[wk.i].label, value),
               !.i = wk.i + 1,
               !.pc = IF wk.i + 1 <= Len(checks) THEN "loop" ELSE "summary"]

\* One iteration up to its wait for the child: the three header lines,
\* status_var.set("Running: ..."), then subprocess.run(cmd, cwd=...,
\* capture_output=True, text=True, timeout=300) creates the child, or the
\* spawn raises: except Exception writes "Error: ..." and stores
\* results[label] = False.
run_all_start(wk) ==
    /\ Running(wk)
    /\ wk.target = "run_all_thread"
    /\ wk.pc = "loop"
    /\ LET c == checks[wk.i]
           header == write_output(output, "run_all_thread")
       IN
       \/ /\ Step(wk, [wk EXCEPT !.pc = "wait",
                                 !.child = <<Proc(c.cmd, run_all_cwd(c.cmd),
                                                  {DashboardTimeout}, "run_all")>>])
          /\ output' = header
       \/ /\ output' = write_output(header, "run_all_thread")
          /\ Step(wk, [NextCheck(wk, FALSE) EXCEPT !.child = <<>>])
    /\ status' = Status("Running", checks[wk.i].label)
    /\ UNCHANGED mainVars

\* The child exits within the timeout: its captured output is written and
\* results[label] = result.returncode == 0
run_all_return(wk) ==
    /\ Running(wk)
    /\ wk.target = "run_all_thread"
    /\ wk.pc = "wait"
    /\ \E rc \in ExitCodes :
        Step(wk, [NextCheck(wk, rc = 0) EXCEPT !.child = Exited(wk, rc)])
    /\ output' = write_output(output, "run_all_thread")
    /\ UNCHANGED status
    /\ UNCHANGED mainVars

\* subprocess.TimeoutExpired, the child killed: the same except Exception.
run_all_timeout(wk) ==
    /\ Running(wk)
    /\ wk.target = "run_all_thread"
    /\ wk.pc = "wait"
    /\ output' = write_output(output, "run_all_thread")
    /\ Step(wk, [NextCheck(wk, FALSE) EXCEPT !.child = Killed(wk)])
    /\ UNCHANGED status
    /\ UNCHANGED mainVars

\* After the loop: the summary, all_passed = all(results.values()), the
\* verdict in the output and in status_var; the thread ends.
run_all_summary(wk) ==
    /\ Running(wk)
    /\ wk.target = "run_all_thread"
    /\ wk.pc = "summary"
    /\ LET ap == dash_all_passed(wk.results)
       IN /\ output' = write_output(output, "run_all_thread")
          /\ status' = Status(IF ap THEN "All checks passed!"
                              ELSE "Some checks failed", "")
          /\ Step(wk, [wk EXCEPT !.pc = IF ap THEN "passed" ELSE "failed"])
    /\ UNCHANGED mainVars

\* ---- the program --------------------------------------------------------
\* The command-line modes of the main thread.
CliNext ==
    \/ check_prerequisites
    \/ skip_checks
    \/ main_dispatch
    \/ run_check_spawn
    \/ run_check_return
    \/ run_all_tests_summary
    \/ main_sys_exit
    \/ install_dependencies_spawn
    \/ install_dependencies_return
    \/ download_vad_model_exists
    \/ download_vad_model_curl
    \/ download_vad_model_curl_return
    \/ download_vad_model_urllib
    \/ launch_spawn
    \/ launch_return
    \/ launch_interrupt
    \/ launch_stopped

\* The main thread: the launcher from its start to its exit; the dashboard
\* is a window that opens and is closed.
Next ==
    \/ CliNext
    \/ launch_dashboard
    \/ close_window

\* The dashboard while root.mainloop() runs: the button handlers, run by the
\* main thread one at a time, and the steps of the worker threads.
DashNext ==
    \/ \E b \in 1..Len(buttons) : check_btn(b)
    \/ launch_frontend_btn
    \/ launch_tauri_btn
    \/ run_all_btn
    \/ clear_output_btn
    \/ close_window
    \/ \E wk \in BagToSet(workers) : wrapper_start(wk)
    \/ \E wk \in BagToSet(workers) : wrapper_return(wk)
    \/ \E wk \in BagToSet(workers) : wrapper_timeout(wk)
    \/ \E wk \in BagToSet(workers) : run_all_start(wk)
    \/ \E wk \in BagToSet(workers) : run_all_return(wk)
    \/ \E wk \in BagToSet(workers) : run_all_timeout(wk)
    \/ \E wk \in BagToSet(workers) : run_all_summary(wk)

\* The state in which main enters root.mainloop() after
\* "run_voice_input.py --dashboard" with every tool found, bun install done
\* and the VAD model in place.  The dashboard reads nothing else of what the
\* main thread did before.
DashInit ==
    /\ args = {"dashboard"}
    /\ pc = "mainloop"
    /\ mode = "dashboard"
    /\ found = Tools
    /\ vadFile = "complete"
    /\ vadResult = "true"
    /\ transports = <<>>
    /\ procs = <<[Proc(BUN_INSTALL, PROJECT_ROOT, {}, "install")
                   EXCEPT !.state = "exited", !.rc = 0]>>
    /\ todo = <<>>
    /\ results = <<>>
    /\ summary = "none"
    /\ exitCode = -1
    /\ workers = EmptyBag
    /\ output = {}
    /\ status = Status("Ready", "")

\* The launcher, from the command line to its exit.
Spec == Init /\ [][Next]_vars

\* The launcher whose main thread, once the interrupted subprocess.run has
\* raised, goes on to run its except clause: nothing else can delay it.
LiveSpec == Spec /\ WF_vars(launch_stopped)

\* The dashboard, from the opening of its window.
DashSpec == DashInit /\ [][DashNext]_vars

\* Every entry point side by side: the command-line modes from the command
\* line, and the dashboard from the opening of its window.
EntryInit == Init \/ DashInit
EntryNext == CliNext \/ DashNext
EntrySpec == EntryInit /\ [][EntryNext]_vars

\* ---- the claims ----------------------------------------------------------
\* The check catalog: Rust tests, frontend lint, type check, format check.
Catalog == {CARGO_TEST, BUN_LINT, BUN_TSC, BUN_FORMAT}

\* A child of the batch runners ran command c and exited with code 0.
ExitedZero(c) ==
    \E p \in 1..Len(procs) :
        /\ procs[p].entry = "batch"
        /\ procs[p].cmd = c
        /\ procs[p].state = "exited"
        /\ procs[p].rc = 0

ExitCodeFor(cmds) == IF \A c \in cmds : ExitedZero(c) THEN 0 ELSE 1

\* C1 as stated: when the launcher is invoked with --test, the exit code is 0
\* if and only if each of the four checks of the catalog exited with code 0,
\* and 1 otherwise; with --test-rust the same for the Rust-test check alone.
C1_AsStated ==
    exitCode # -1 =>
        /\ "test" \in args => exitCode = ExitCodeFor(Catalog)
        /\ "test_rust" \in args => exitCode = ExitCodeFor({CARGO_TEST})

\* C1 amended: when the launcher is invoked with --test and without
\* --test-rust, the exit code is 0 if and only if each of the four checks of
\* the catalog exited with code 0, and 1 otherwise; with --test-rust (with or
\* without --test) the same holds for the Rust-test check alone.
C1_ExitCode ==
    exitCode # -1 =>
        /\ ("test" \in args /\ "test_rust" \notin args) =>
                exitCode = ExitCodeFor(Catalog)
        /\ "test_rust" \in args => exitCode = ExitCodeFor({CARGO_TEST})

\* --test alone has run the four checks, one of them failed, exit code 1.
C1_Witness ==
    /\ "test" \in args
    /\ "test_rust" \notin args
    /\ exitCode = 1
    /\ Len(procs) = 4
    /\ \A p \in 1..4 : procs[p].state = "exited"
    /\ Cardinality({p \in 1..4 : procs[p].rc # 0}) = 1

\* C2: in a multi-check run every scheduled check is executed and recorded
\* whatever the outcome of the checks before it: once the run of --test has
\* ended, each of the four checks has a recorded result.
C2_EveryCheckRecorded ==
    (mode = "test" /\ exitCode # -1) =>
        \A i \in 1..Len(run_all_tests_order) :
            \E j \in 1..Len(results) : results[j].name = run_all_tests_order[i].name

\* C3: every execution of a check ends in a recorded outcome, and a command
\* that cannot be spawned never makes an exception escape the orchestrator:
\* a batch run never ends in an uncaught exception with the check it was
\* executing left without a result.
C3_NoEscapingException ==
    mode \in {"test", "test_rust"} =>
        /\ pc # "crashed"
        /\ pc = "exited" => todo = <<>>

\* The names under which run_all_tests records, and the commands it runs, in
\* the order of the catalog.
CatalogNames == <<"Rust Tests", "Frontend Lint", "Type Check", "Format Check">>
CatalogCmds == <<CARGO_TEST, BUN_LINT, BUN_TSC, BUN_FORMAT>>

IsPrefix(s, t) == Len(s) <= Len(t) /\ \A i \in 1..Len(s) : s[i] = t[i]

\* C4: in batch mode (run_all_tests) no two child processes are alive at the
\* same time, the checks run in the order Rust Tests, Frontend Lint, Type
\* Check, Format Check, the results are recorded in that order, each after
\* its child has ended, and the function returns only after each of the four
\* checks has a recorded result.
C4_Sequential ==
    mode = "test" =>
        /\ Cardinality({p \in 1..Len(procs) : procs[p].state = "alive"}) <= 1
        /\ IsPrefix([p \in 1..Len(procs) |-> procs[p].cmd], CatalogCmds)
        /\ IsPrefix([j \in 1..Len(results) |-> results[j].name], CatalogNames)
        /\ \A j \in 1..Len(results) : j <= Len(procs) /\ procs[j].state # "alive"
        /\ Len(procs) <= Len(results) + 1
        /\ summary # "none" => Len(results) = 4

\* run_all_tests has returned after a run in which the second check failed
\* and the third and the fourth still ran.
C4_Witness ==
    /\ mode = "test"
    /\ summary = "issues"
    /\ Len(results) = 4
    /\ ~results[2].passed
    /\ results[4].passed

\* The orderings of 1..n, and the arrangements of a sequence of results.
Perms ==
    [n \in 0..Len(CatalogNames) |->
        {f \in [1..n -> 1..n] : \A i, j \in 1..n : f[i] = f[j] => i = j}]
Reordered(res) == {[i \in 1..Len(res) |-> res[f[i]]] : f \in Perms[Len(res)]}

\* The worker threads of Run All Checks.
RunAllWorkers == {wk \in BagToSet(workers) : wk.target = "run_all_thread"}

\* The worker threads of the buttons that go through run_in_thread.
WrapperWorkers == {wk \in BagToSet(workers) : wk.target = "wrapper"}

\* C5: the aggregate "all passed" of a multi-check run (batch run_all_tests
\* and the dashboard's Run All Checks) is reported only after each scheduled
\* check has a recorded result; it is true if and only if every recorded
\* result is a success (the child exited with code 0); it is the same for
\* every order of the recorded results; and over no results it is true.
C5_Aggregate ==
    /\ summary # "none" =>
        /\ \A i \in 1..Len(CatalogNames) :
              \E j \in 1..Len(results) : results[j].name = CatalogNames[i]
        /\ (summary = "passed") <=> \A c \in Catalog : ExitedZero(c)
    /\ pc = "check_done" =>
          \A r \in Reordered(results) : batch_all_passed(r) = batch_all_passed(results)
    /\ status.text = "All checks passed!" => \E wk \in RunAllWorkers : wk.pc = "passed"
    /\ status.text = "Some checks failed" => \E wk \in RunAllWorkers : wk.pc = "failed"
    /\ \A wk \in RunAllWorkers :
        /\ wk.pc \in Ended =>
            /\ \A i \in 1..Len(checks) :
                  \E j \in 1..Len(wk.results) : wk.results[j].name = checks[i].label
            /\ (wk.pc = "passed") <=> \A j \in 1..Len(wk.results) : wk.results[j].passed
        /\ (wk.pc # "wait" /\ wk.results # <<>>) =>
              (wk.results[Len(wk.results)].passed <=>
                  (wk.child # <<>> /\ wk.child[1].state = "exited" /\ wk.child[1].rc = 0))
        /\ wk.pc = "summary" =>
              \A r \in Reordered(wk.results) :
                  dash_all_passed(r) = dash_all_passed(wk.results)
    /\ batch_all_passed(<<>>)
    /\ dash_all_passed(<<>>)

\* Run All Checks has reported "Some checks failed" after its three checks,
\* of which one passed and one did not.
C5_Witness ==
    /\ status.text = "Some checks failed"
    /\ \E wk \in RunAllWorkers :
        /\ wk.pc = "failed"
        /\ Len(wk.results) = Len(checks)
        /\ \E j \in 1..Len(wk.results) : wk.results[j].passed
        /\ \E j \in 1..Len(wk.results) : ~wk.results[j].passed

LaunchCmds == {BUN_DEV, BUN_TAURI_DEV}

\* The worker threads whose child process runs command c at the moment.
InFlight(c) ==
    {wk \in BagToSet(workers) :
        wk.child # <<>> /\ wk.child[1].state = "alive" /\ wk.child[1].cmd = c}

\* C6: at most one execution of a given check is in flight at any time in
\* the dashboard: two child processes of the same check never overlap.
C6_AtMostOneInFlight ==
    \A c \in Catalog \cup LaunchCmds :
        \A wk \in InFlight(c) : InFlight(c) = {wk} /\ CopiesIn(wk, workers) = 1

\* A worker other than wk takes a step: the bag of workers changes, no thread
\* is started, and wk is left as it is.
OtherWorkerSteps(wk) ==
    /\ workers' # workers
    /\ BagCardinality(workers') = BagCardinality(workers)
    /\ CopiesIn(wk, workers') >= CopiesIn(wk, workers)

\* C7: in the dashboard no piece of state is written by two workers that are
\* in flight at the same time: while a worker waits for its child, no step
\* of another worker changes the output area or the status.
C7_NoSharedWrites ==
    [][\A wk \in BagToSet(workers) :
          (wk.pc = "wait" /\ OtherWorkerSteps(wk)) =>
              (output' = output /\ status' = status)]_vars

\* subprocess.run has killed the child of wk on the timeout.
TimedOut(wk) == wk.child # <<>> /\ wk.child[1].state = "killed"

\* The child of wk exited by itself with a nonzero code.
Failed(wk) == wk.child # <<>> /\ wk.child[1].state = "exited" /\ wk.child[1].rc # 0

\* What run_all_thread has recorded for the check it executed last.
LastRecord(wk) == wk.results[Len(wk.results)]

\* C8: a dashboard check whose child has not completed within the timeout is
\* terminated and its outcome is reported as timed out, distinct from a
\* failure, both from a single-check button and inside Run All Checks, and
\* the child no longer runs once the outcome is reported.
C8_TimedOutReported ==
    /\ \A wk \in WrapperWorkers :
        /\ TimedOut(wk) <=> wk.pc = "timed_out"
        /\ wk.pc \in Ended => (wk.child = <<>> \/ wk.child[1].state # "alive")
    /\ \A w1, w2 \in RunAllWorkers :
        (/\ TimedOut(w1)
         /\ Failed(w2)
         /\ w1.child[1].cmd = w2.child[1].cmd) => LastRecord(w1) # LastRecord(w2)

\* Every child process of the state: those of the main thread and the
\* latest one of each worker.
Children ==
    {procs[p] : p \in 1..Len(procs)} \cup
    {wk.child[1] : wk \in {w \in BagToSet(workers) : w.child # <<>>}}

\* C9: a launch command (bun run dev, bun run tauri dev) is never terminated
\* by a timeout, from whichever entry point it was started: no timeout
\* applies to it and it is never killed on one.
C9_LaunchNeverTimedOut ==
    \A c \in Children :
        c.cmd \in LaunchCmds => ~(c.state = "killed" /\ c.timeout # {})

\* The working directory fixed for each command.
FixedCwd(cmd) == IF cmd = CARGO_TEST THEN SRC_TAURI ELSE PROJECT_ROOT

\* C10: every execution of a check or of a launch command, from whichever
\* entry point, runs in the working directory fixed for it: the Rust tests
\* in src-tauri, every other check and every launch command in the project
\* root.
C10_WorkingDirectory ==
    \A c \in Children :
        c.cmd \in Catalog \cup LaunchCmds => c.cwd = FixedCwd(c.cmd)

\* The Run Rust Tests button and Run All Checks each have a cargo test child
\* alive, both in src-tauri.
C10_Witness ==
    /\ \E wk \in WrapperWorkers : wk \in InFlight(CARGO_TEST) /\ wk.child[1].cwd = SRC_TAURI
    /\ \E wk \in RunAllWorkers : wk \in InFlight(CARGO_TEST) /\ wk.child[1].cwd = SRC_TAURI

\* C11: download_vad_model performs no transport call when the asset path
\* already exists, and otherwise reports failure only after the secondary
\* transport (urllib) has been attempted too: every failure of the primary
\* transport (curl) is followed by an attempt of the secondary one.
C11_FallbackBeforeFailure ==
    /\ pc = "dl_curl" => (vadFile = "absent" /\ transports = <<>>)
    /\ (vadResult = "true" /\ transports = <<>>) => vadFile # "absent"
    /\ vadResult = "false" =>
          (transports # <<>> /\ transports[Len(transports)] = "urllib")

\* C12: when the asset fetch required by a launch path has failed (both
\* transports failed), that launch is halted: no launch command is started
\* after download_vad_model has reported failure.
C12_LaunchHaltedOnFetchFailure ==
    (vadResult = "false" /\ transports = <<"curl", "urllib">>) =>
        \A p \in 1..Len(procs) : procs[p].cmd \notin LaunchCmds

\* C13: in streaming mode (launch_frontend_only, launch_tauri_dev) an
\* interrupt delivered while the child is running always leads to the
\* launcher returning: the process ends, and from the interrupt on no further
\* command is started.
C13_InterruptReturns ==
    /\ (pc = "launch_interrupted") ~> (pc = "exited" /\ exitCode = 0)
    /\ [][(pc \in {"launch_interrupted", "exited"}) => (procs' = procs)]_vars

\* The launch command was interrupted, its child killed, and the process has
\* ended.
C13_Witness ==
    /\ pc = "exited"
    /\ procs # <<>>
    /\ Child.cmd \in LaunchCmds
    /\ Child.state = "killed"

\* A button handler has run: one more worker thread was started.
HandlerStep == BagCardinality(workers') > BagCardinality(workers)

\* C14: triggering a single check or Run All Checks in the dashboard never
\* blocks the GUI thread on a child process: the button handler returns to
\* the event loop having created no child, the thread it started has yet to
\* create its child, the GUI thread holds no running child of its own, and
\* while a worker waits for its child the GUI thread can still handle events.
C14_HandlerNeverWaits ==
    [][/\ \A p \in 1..Len(procs) : procs[p].state # "alive"
       /\ (pc = "mainloop" /\ \E wk \in BagToSet(workers) : wk.pc = "wait") =>
              ENABLED close_window
       /\ HandlerStep =>
            /\ pc' = "mainloop"
            /\ procs' = procs
            /\ \A wk \in BagToSet(workers') :
                  CopiesIn(wk, workers') > CopiesIn(wk, workers) =>
                      (wk.child = <<>> /\ wk.pc \in {"begin", "loop"})]_vars

\* One worker waits for its child while the handler of a later click has
\* already returned and left its thread to start.
C14_Witness ==
    /\ pc = "mainloop"
    /\ \E wk \in BagToSet(workers) : wk.pc = "wait" /\ wk.child[1].state = "alive"
    /\ \E wk \in BagToSet(workers) : wk.pc \in {"begin", "loop"} /\ wk.child = <<>>

\* C15: the dashboard's Run All Checks schedules the same checks as batch
\* --test, the four checks of the catalog: a Run All Checks that has reported
\* its verdict has recorded a result for exactly the four names of the
\* catalog.
C15_SameCatalog ==
    \A wk \in RunAllWorkers :
        wk.pc \in Ended =>
            {wk.results[j].name : j \in 1..Len(wk.results)} = Range(CatalogNames)

\* The tools without which the launcher refuses to go on.
Required == {"rustc", "cargo", "bun"}

\* The process has ended at the prerequisite scan, before main chose a mode.
StoppedAtScan == pc = "exited" /\ mode = "none"

\* C16: unless --skip-checks is given, when the prerequisite scan finds
\* rustc, cargo or bun missing the process exits with code 1 before any
\* install, download, check or launch command is started; a missing node or
\* a missing asset alone never stops the run; and with --skip-checks the
\* scan is not run at all.
C16_PrerequisiteGate ==
    /\ ("skip_checks" \notin args /\ pc # "start") =>
          IF Required \subseteq found
          THEN ~StoppedAtScan
          ELSE /\ StoppedAtScan
               /\ exitCode = 1
               /\ procs = <<>>
               /\ transports = <<>>
    /\ "skip_checks" \in args => (found = {} /\ ~StoppedAtScan)

\* The scan has found cargo missing and the process has exited with code 1.
C16_Witness ==
    /\ "skip_checks" \notin args
    /\ "cargo" \notin found
    /\ {"rustc", "bun"} \subseteq found
    /\ pc = "exited"
    /\ exitCode = 1

\* The precedence of the modes: --test-rust, --test, --dashboard, --frontend,
\* default launch.
PrecedenceMode(a) ==
    IF "test_rust" \in a THEN "test_rust"
    ELSE IF "test" \in a THEN "test"
    ELSE IF "dashboard" \in a THEN "dashboard"
    ELSE IF "frontend" \in a THEN "frontend"
    ELSE "default"

\* The commands the main thread starts in each mode.
ModeCmds(m) ==
    CASE m = "test_rust" -> {CARGO_TEST}
      [] m = "test" -> Catalog
      [] m = "dashboard" -> {BUN_INSTALL, CURL}
      [] m = "frontend" -> {BUN_INSTALL, BUN_DEV}
      [] m = "default" -> {BUN_INSTALL, CURL, BUN_TAURI_DEV}

\* C17: main performs the action of exactly one mode per invocation, chosen
\* by the precedence --test-rust, --test, --dashboard, --frontend, default:
\* whatever flags are given, the main thread starts only commands of that
\* mode, each at most once, and none before the mode is chosen.
C17_OneMode ==
    /\ mode # "none" => mode = PrecedenceMode(args)
    /\ mode = "none" => procs = <<>>
    /\ \A p \in 1..Len(procs) : procs[p].cmd \in ModeCmds(PrecedenceMode(args))
    /\ \A p, q \in 1..Len(procs) : procs[p].cmd = procs[q].cmd => p = q
    /\ pc \in {"launch_dashboard", "mainloop"} => mode = "dashboard"
    /\ pc \in {"launch_spawn", "launch_wait", "launch_interrupted"} =>
          mode \in {"frontend", "default"}

\* --test given together with --dashboard and --frontend: the four checks
\* have run, the process has ended and nothing else was started.
C17_Witness ==
    /\ {"test", "dashboard", "frontend"} \subseteq args
    /\ "test_rust" \notin args
    /\ pc = "exited"
    /\ Len(procs) = 4
    /\ \A p \in 1..Len(procs) : procs[p].cmd \in Catalog

\* C18: whenever download_vad_model reports success, the asset file at the
\* path has been completely fetched.
C18_SuccessMeansComplete == vadResult = "true" => vadFile = "complete"

====
